---- MODULE Spec2Model ----
(***************************************************************************)
(* The NDEF decoder of src/ndef.py as a state machine.                     *)
(*                                                                         *)
(* One parse is a run of the machine: the buffer `data` is fixed by Init,  *)
(* and every action is one stretch of the code between two buffer reads    *)
(* (one call of Ndef.get and the statements that follow it up to the next  *)
(* call).  The record `st` holds the Ndef object's output, the locals of   *)
(* the active functions, the position in the code (`pc`) and a few         *)
(* observation fields (which indices were read, what the last get call     *)
(* asked for and returned) that the code does not hold but the properties  *)
(* speak about.                                                            *)
(*                                                                         *)
(* Bytes are integers 0..255, the buffer is a sequence of bytes addressed  *)
(* from 0 as in the code (data[i] of the code is data[i+1] here), and text *)
(* is a sequence of Unicode code points.                                   *)
(***************************************************************************)
EXTENDS Integers, Sequences, FiniteSets, TLC

VARIABLES data, st

vars == <<data, st>>

(***************************************************************************)
(* Program constants (src/ndef.py:6-21).                                   *)
(***************************************************************************)
NdefTlvPadding == 0
NdefTlvLockControl == 1
NdefTlvMemoryControl == 2
NdefTlvNdefMessage == 3
NdefTlvProprietary == 253
NdefTlvTerminator == 254

NdefTnfWellKnownType == 1
NdefTnfMediaType == 2

(***************************************************************************)
(* Text literals of the code, as code points.                              *)
(***************************************************************************)
\* "U" and "T"
TypeU == <<85>>
TypeT == <<84>>
\* "application/vnd.bluetooth.ep.oob"
TypeBt ==
  <<97, 112, 112, 108, 105, 99, 97, 116, 105, 111, 110, 47, 118, 110, 100, 46,
    98, 108, 117, 101, 116, 111, 111, 116, 104, 46, 101, 112, 46, 111, 111, 98>>
\* "text/vcard"
TypeVcard == <<116, 101, 120, 116, 47, 118, 99, 97, 114, 100>>
\* "application/vnd.wfa.wsc"
TypeWifi ==
  <<97, 112, 112, 108, 105, 99, 97, 116, 105, 111, 110, 47, 118, 110, 100, 46,
    119, 102, 97, 46, 119, 115, 99>>

\* "URI\n", "Text\n", "BT MAC\n", "Contact\n", "WiFi\n"
LabelUri == <<85, 82, 73, 10>>
LabelText == <<84, 101, 120, 116, 10>>
LabelBt == <<66, 84, 32, 77, 65, 67, 10>>
LabelContact == <<67, 111, 110, 116, 97, 99, 116, 10>>
LabelWifi == <<87, 105, 70, 105, 10>>
\* "Unknown Well-known", "Unknown Media", "Unsupported TNF"
PrefixUnknownWellKnown ==
  <<85, 110, 107, 110, 111, 119, 110, 32, 87, 101, 108, 108, 45, 107, 110, 111,
    119, 110>>
PrefixUnknownMedia == <<85, 110, 107, 110, 111, 119, 110, 32, 77, 101, 100, 105, 97>>
PrefixUnsupportedTnf ==
  <<85, 110, 115, 117, 112, 112, 111, 114, 116, 101, 100, 32, 84, 78, 70>>
\* ": " and "\n"
ColonSpace == <<58, 32>>
Newline == <<10>>

\* "No NDEF messages found."
NoMessagesText ==
  <<78, 111, 32, 78, 68, 69, 70, 32, 109, 101, 115, 115, 97, 103, 101, 115, 32,
    102, 111, 117, 110, 100, 46>>
\* "Error during parsing: "
ErrorPrefix ==
  <<69, 114, 114, 111, 114, 32, 100, 117, 114, 105, 110, 103, 32, 112, 97, 114,
    115, 105, 110, 103, 58, 32>>
\* "Out-of-bounds access in NDEF data"
OutOfBoundsText ==
  <<79, 117, 116, 45, 111, 102, 45, 98, 111, 117, 110, 100, 115, 32, 97, 99, 99,
    101, 115, 115, 32, 105, 110, 32, 78, 68, 69, 70, 32, 100, 97, 116, 97>>
\* "Chunked records not supported"
ChunkedText ==
  <<67, 104, 117, 110, 107, 101, 100, 32, 114, 101, 99, 111, 114, 100, 115, 32,
    110, 111, 116, 32, 115, 117, 112, 112, 111, 114, 116, 101, 100>>
\* "index out of range", the text of the IndexError of b""[0]
IndexErrorText ==
  <<105, 110, 100, 101, 120, 32, 111, 117, 116, 32, 111, 102, 32, 114, 97, 110,
    103, 101>>

\* The URI prefix table.
ndef_uri_prepends(code) ==
  CASE code = 0 -> <<>>
    [] code = 1 -> <<104, 116, 116, 112, 58, 47, 47, 119, 119, 119, 46>>
    [] code = 2 -> <<104, 116, 116, 112, 115, 58, 47, 47, 119, 119, 119, 46>>
    [] code = 3 -> <<104, 116, 116, 112, 58, 47, 47>>
    [] code = 4 -> <<104, 116, 116, 112, 115, 58, 47, 47>>
    [] code = 5 -> <<116, 101, 108, 58>>
    [] code = 6 -> <<109, 97, 105, 108, 116, 111, 58>>
    [] OTHER -> <<>>

(***************************************************************************)
(* Python's built-ins, as far as the decoder uses them.                    *)
(***************************************************************************)
Min(a, b) == IF a < b THEN a ELSE b
Max(a, b) == IF a > b THEN a ELSE b

\* A slice bound as Python normalises it: a negative bound counts from the
\* end, and the result is clamped to 0..n.
SliceBound(i, n) == IF i < 0 THEN Max(i + n, 0) ELSE Min(i, n)

\* The 0-based indices that the slice d[a:b] reads.
SliceIndices(d, a, b) ==
  {i \in 0..(Len(d) - 1) : SliceBound(a, Len(d)) <= i /\ i < SliceBound(b, Len(d))}

\* d[a:b]
Slice(d, a, b) ==
  LET lo == SliceBound(a, Len(d))
      hi == SliceBound(b, Len(d))
  IN  IF hi <= lo THEN <<>> ELSE [i \in 1..(hi - lo) |-> d[lo + i]]

\* Python's integers are unbounded and TLC's are 32 bits wide: a
\* length of LengthCap or more is held as LengthCap.  Every buffer here is
\* far shorter, so a read of that length raises all the same.
LengthCap == 2^30

\* int.from_bytes(b, byteorder='big')
RECURSIVE FromBytesBig(_)
FromBytesBig(b) ==
  IF b = <<>> THEN 0
  ELSE LET hi == FromBytesBig(SubSeq(b, 1, Len(b) - 1))
       IN  IF hi >= LengthCap \div 256 THEN LengthCap ELSE 256 * hi + b[Len(b)]

\* f"{b:02X}": two upper-case hexadecimal digits.
HexDigit(n) == IF n < 10 THEN 48 + n ELSE 55 + n
Hex02X(b) == <<HexDigit(b \div 16), HexDigit(b % 16)>>

\* " ".join(f"{b:02X}" for b in chunk)
RECURSIVE HexJoin(_)
HexJoin(chunk) ==
  IF chunk = <<>> THEN <<>>
  ELSE IF Len(chunk) = 1 THEN Hex02X(chunk[1])
  ELSE Hex02X(chunk[1]) \o <<32>> \o HexJoin(Tail(chunk))

\* A UTF-8 continuation byte.
IsCont(b) == 128 <= b /\ b <= 191

\* What bytes.decode('utf-8', errors='replace') does at the head of a
\* non-empty byte sequence: the code point produced and the number of bytes
\* consumed.  An ill-formed sequence gives U+FFFD (65533) for its maximal
\* well-formed prefix, as CPython's decoder does.
Utf8Head(b) ==
  LET n == Len(b)
      c1 == b[1]
      bad(k) == [cp |-> 65533, used |-> k]
  IN  IF c1 < 128 THEN [cp |-> c1, used |-> 1]
      ELSE IF c1 < 194 \/ c1 > 244 THEN bad(1)
      ELSE IF c1 < 224 THEN
        IF n < 2 THEN bad(1)
        ELSE IF ~IsCont(b[2]) THEN bad(1)
        ELSE [cp |-> (c1 % 32) * 64 + (b[2] % 64), used |-> 2]
      ELSE IF c1 < 240 THEN
        IF n < 2 THEN bad(1)
        ELSE IF ~IsCont(b[2]) \/ (c1 = 224 /\ b[2] < 160) \/ (c1 = 237 /\ b[2] >= 160)
          THEN bad(1)
        ELSE IF n < 3 THEN bad(2)
        ELSE IF ~IsCont(b[3]) THEN bad(2)
        ELSE [cp |-> (c1 % 16) * 4096 + (b[2] % 64) * 64 + (b[3] % 64), used |-> 3]
      ELSE
        IF n < 2 THEN bad(1)
        ELSE IF ~IsCont(b[2]) \/ (c1 = 240 /\ b[2] < 144) \/ (c1 = 244 /\ b[2] >= 144)
          THEN bad(1)
        ELSE IF n < 3 THEN bad(2)
        ELSE IF ~IsCont(b[3]) THEN bad(2)
        ELSE IF n < 4 THEN bad(3)
        ELSE IF ~IsCont(b[4]) THEN bad(3)
        ELSE [cp |-> (c1 % 8) * 262144 + (b[2] % 64) * 4096 + (b[3] % 64) * 64
                     + (b[4] % 64),
              used |-> 4]

\* bytes.decode('utf-8', errors='replace')
RECURSIVE Utf8Decode(_)
Utf8Decode(b) ==
  IF b = <<>> THEN <<>>
  ELSE LET h == Utf8Head(b)
       IN  <<h.cp>> \o Utf8Decode(SubSeq(b, h.used + 1, Len(b)))

\* str.isspace() of one code point.
IsSpace(c) ==
  \/ (9 <= c /\ c <= 13)
  \/ (28 <= c /\ c <= 32)
  \/ c \in {133, 160, 5760, 8232, 8233, 8239, 8287, 12288}
  \/ (8192 <= c /\ c <= 8202)

\* str.lstrip(), str.rstrip(), str.strip()
RECURSIVE LStrip(_)
LStrip(t) == IF t # <<>> /\ IsSpace(t[1]) THEN LStrip(Tail(t)) ELSE t
RECURSIVE RStrip(_)
RStrip(t) ==
  IF t # <<>> /\ IsSpace(t[Len(t)]) THEN RStrip(SubSeq(t, 1, Len(t) - 1)) ELSE t
Strip(t) == RStrip(LStrip(t))

\* The test with 127 taken for printable.
AllPrintableTo127(chunk) ==
  \A i \in 1..Len(chunk) :
    (32 <= chunk[i] /\ chunk[i] <= 127) \/ chunk[i] \in {9, 10, 13}

\* all(32 <= b < 127 or b in (9,10,13) for b in chunk)
AllPrintable(chunk) ==
  \A i \in 1..Len(chunk) :
    (32 <= chunk[i] /\ chunk[i] < 127) \/ chunk[i] \in {9, 10, 13}


(***************************************************************************)
(* Ndef.get and the state of a parse.                                      *)
(***************************************************************************)
\* Ndef.get without its test: the slice alone.
get_unchecked(d, pos, length) ==
  [raised |-> FALSE, chunk |-> Slice(d, pos, pos + length)]

\* Ndef.get with a test of the start of the range only.
get_checks_start(d, pos, length) ==
  IF pos > Len(d)
    THEN [raised |-> TRUE, chunk |-> <<>>]
    ELSE [raised |-> FALSE, chunk |-> Slice(d, pos, pos + length)]

\* Ndef.get(pos, length): raises when pos + length passes the end of the
\* buffer, and returns the slice data[pos : pos+length] otherwise.
get(d, pos, length) ==
  IF pos + length > Len(d)
    THEN [raised |-> TRUE, chunk |-> <<>>]
    ELSE [raised |-> FALSE, chunk |-> Slice(d, pos, pos + length)]

\* The state after Ndef(data) is constructed and before any function runs.
\* reads, lg, tlv_start, rec_start, term_pos, blocks, steps, at_end, log,
\* gets and rec_get0 observe the run:
\* the indices read so far, the last call of get (its arguments, whether it
\* raised, how many bytes it returned), the cursor at the start of the
\* current scanner iteration and of the current record, where a Terminator
\* type byte was read, how many blocks were appended to the output, how
\* many steps were taken, whether the scanner's loop test has failed, and
\* each text appended to the output with the start of the record it came
\* from, the arguments of every call of get in order, how many calls
\* had been made when the current record began, and how many type bytes
\* NdefMessage the scanner has read.
NdefInit ==
  [pc |-> "idle", entry |-> "none", output |-> <<>>,
   pos |-> 0, end |-> 0, already_parsed |-> 0, message_count |-> 0,
   tlv_type |-> 0, len_type |-> 0, tlv_len |-> 0, msg_end |-> 0,
   flags |-> 0, type_len |-> 0, payload_len |-> 0, id_len |-> 0,
   type_field |-> <<>>, sub_pos |-> 0, sub_length |-> 0,
   prepend_type |-> 0, lang_len |-> 0,
   exc |-> "none", ret |-> -1, result |-> <<>>,
   reads |-> {}, lg |-> [called |-> FALSE, pos |-> 0, length |-> 0,
                         raised |-> FALSE, n |-> 0],
   tlv_start |-> -1, rec_start |-> -1, term_pos |-> -1, blocks |-> 0,
   steps |-> 0, at_end |-> FALSE, log |-> <<>>, gets |-> <<>>, rec_get0 |-> 0,
   ndef_headers |-> 0]

\* The observation of one call get(pos, length) that returned r.
Observe(d, s, pos, length, r) ==
  [s EXCEPT !.reads = IF r.raised THEN @ ELSE @ \cup SliceIndices(d, pos, pos + length),
            !.lg = [called |-> TRUE, pos |-> pos, length |-> length,
                    raised |-> r.raised, n |-> Len(r.chunk)],
            !.gets = Append(@, <<pos, length>>)]

\* `raise`: the exception unwinds every frame.  parse_ndef catches it; a
\* direct caller of parse_ndef_tlv receives it.
Raise(s, e) ==
  [s EXCEPT !.exc = e,
            !.pc = IF s.entry = "parse_ndef" THEN "except" ELSE "done"]

\* `return n` of parse_ndef_tlv.
ReturnCount(s, n) ==
  [s EXCEPT !.ret = n,
            !.pc = IF s.entry = "parse_ndef" THEN "parse_ndef_ret" ELSE "done"]

\* The expression ndef.get(pos, length)[0]: get may raise, and indexing an
\* empty result raises IndexError.
GetByte0(d, pos, length) ==
  LET r == get(d, pos, length)
  IN  IF r.raised THEN [exc |-> "OutOfBounds", val |-> 0, r |-> r]
      ELSE IF r.chunk = <<>> THEN [exc |-> "IndexError", val |-> 0, r |-> r]
      ELSE [exc |-> "none", val |-> r.chunk[1], r |-> r]

\* The bits of the flags byte.
Mb(flags) == (flags \div 128) % 2
Me(flags) == (flags \div 64) % 2
CfWrongBit(flags) == (flags \div 16) % 2
Cf(flags) == (flags \div 32) % 2
Sr(flags) == (flags \div 16) % 2
Il(flags) == (flags \div 8) % 2
Tnf(flags) == flags % 8

(***************************************************************************)
(* parse_ndef_tlv, the TLV scanner.                                        *)
(***************************************************************************)
\* parse_ndef(data) up to the scanner's loop: the call
\* parse_ndef_tlv(ndef, 0, len(data), 0).
parse_ndef_call(d, s) ==
  [s EXCEPT !.pc = "tlv_loop", !.entry = "parse_ndef", !.pos = 0,
            !.end = 0 + Len(d), !.already_parsed = 0, !.message_count = 0]

\* A direct call parse_ndef_tlv(ndef, 0, len(data), already_parsed).
parse_ndef_tlv_call(d, s, already_parsed) ==
  [s EXCEPT !.pc = "tlv_loop", !.entry = "parse_ndef_tlv", !.pos = 0,
            !.end = 0 + Len(d), !.already_parsed = already_parsed,
            !.message_count = already_parsed]

\* The scanner's last branch, any other type byte: return 0.
parse_ndef_tlv_unknown_keeps_count(s) == ReturnCount(s, s.message_count)
\* The same branch refusing the buffer with an error.
parse_ndef_tlv_unknown_raises(s) == Raise(s, "OutOfBounds")
parse_ndef_tlv_unknown(s) == ReturnCount(s, 0)

\* The loop left as an error: a buffer without a Terminator is refused.
parse_ndef_tlv_end_raises(s) == Raise(s, "OutOfBounds")

\* The statement after the loop, reached when pos < end fails:
\* return message_count.
parse_ndef_tlv_end(s) == ReturnCount(s, s.message_count)

\* The loop test, the read of the type byte and the branch on it.
parse_ndef_tlv_type(d, s) ==
  IF ~(s.pos < s.end) THEN parse_ndef_tlv_end([s EXCEPT !.at_end = TRUE])
  ELSE
    LET g == GetByte0(d, s.pos, 1)
        o == [Observe(d, s, s.pos, 1, g.r) EXCEPT !.tlv_start = s.pos]
    IN  IF g.exc # "none" THEN Raise(o, g.exc)
        ELSE
          LET t == [o EXCEPT !.tlv_type = g.val, !.pos = s.pos + 1]
          IN  IF g.val = NdefTlvPadding THEN t
              ELSE IF g.val = NdefTlvTerminator
                THEN ReturnCount([t EXCEPT !.term_pos = s.pos], t.message_count)
              ELSE IF g.val \in {NdefTlvLockControl, NdefTlvMemoryControl,
                                 NdefTlvProprietary, NdefTlvNdefMessage}
                THEN [t EXCEPT !.pc = "tlv_len",
                               !.ndef_headers =
                                 IF g.val = NdefTlvNdefMessage THEN @ + 1 ELSE @]
              ELSE parse_ndef_tlv_unknown(t)

\* The first byte of the length field.
parse_ndef_tlv_len(d, s) ==
  LET g == GetByte0(d, s.pos, 1)
      o == Observe(d, s, s.pos, 1, g.r)
  IN  IF g.exc # "none" THEN Raise(o, g.exc)
      ELSE IF g.val < 255
        THEN [o EXCEPT !.len_type = g.val, !.pos = s.pos + 1, !.tlv_len = g.val,
                       !.pc = "tlv_value"]
        ELSE [o EXCEPT !.len_type = g.val, !.pos = s.pos + 1, !.pc = "tlv_len_long"]

\* The two bytes of a long length field.
parse_ndef_tlv_len_long(d, s) ==
  LET r == get(d, s.pos, 2)
      o == Observe(d, s, s.pos, 2, r)
  IN  IF r.raised THEN Raise(o, "OutOfBounds")
      ELSE [o EXCEPT !.tlv_len = FromBytesBig(r.chunk), !.pos = s.pos + 2,
                     !.pc = "tlv_value"]

\* The same with a skip that is refused when it passes the end of the
\* buffer.
parse_ndef_tlv_value_skip_checked(d, s) ==
  IF s.tlv_type # NdefTlvNdefMessage
    THEN IF s.pos + s.tlv_len > Len(d) THEN Raise(s, "OutOfBounds")
         ELSE [s EXCEPT !.pos = s.pos + s.tlv_len, !.pc = "tlv_loop"]
    ELSE [s EXCEPT !.message_count = s.message_count + 1,
                   !.msg_end = s.pos + s.tlv_len, !.rec_start = -1,
                   !.pc = "msg_loop"]

\* The same with a count of the messages that hold a record.
parse_ndef_tlv_value_counts_nonempty(d, s) ==
  IF s.tlv_type # NdefTlvNdefMessage
    THEN [s EXCEPT !.pos = s.pos + s.tlv_len, !.pc = "tlv_loop"]
    ELSE [s EXCEPT !.message_count = IF s.tlv_len > 0 THEN @ + 1 ELSE @,
                   !.msg_end = s.pos + s.tlv_len, !.rec_start = -1,
                   !.pc = "msg_loop"]

\* The value: skipped, or handed to parse_ndef_message, whose first
\* statement sets its end.
parse_ndef_tlv_value(d, s) ==
  IF s.tlv_type # NdefTlvNdefMessage
    THEN [s EXCEPT !.pos = s.pos + s.tlv_len, !.pc = "tlv_loop"]
    ELSE [s EXCEPT !.message_count = s.message_count + 1,
                   !.msg_end = s.pos + s.tlv_len, !.rec_start = -1,
                   !.pc = "msg_loop"]

(***************************************************************************)
(* parse_ndef_message, the message decoder.                                *)
(***************************************************************************)
\* The loop test: call parse_ndef_record, or return pos to the scanner.
parse_ndef_message(d, s) ==
  IF s.pos < s.msg_end
    THEN [s EXCEPT !.rec_start = s.pos, !.rec_get0 = Len(s.gets),
                   !.pc = "rec_flags"]
    ELSE [s EXCEPT !.pc = "tlv_loop"]


(***************************************************************************)
(* parse_ndef_record, the record decoder.                                  *)
(***************************************************************************)
\* The chunk-flag test made after the type length is read.
parse_ndef_record_flags_late_check(d, s) ==
  LET g == GetByte0(d, s.pos, 1)
      o == Observe(d, s, s.pos, 1, g.r)
  IN  IF g.exc # "none" THEN Raise(o, g.exc)
      ELSE
        LET t == [o EXCEPT !.flags = g.val, !.pos = s.pos + 1]
            h == GetByte0(d, s.pos + 1, 1)
            u == Observe(d, t, s.pos + 1, 1, h.r)
        IN  IF h.exc # "none" THEN Raise(u, h.exc)
            ELSE IF Cf(g.val) # 0 THEN Raise(u, "Chunked")
            ELSE [u EXCEPT !.type_len = h.val, !.pos = s.pos + 2,
                           !.pc = "rec_payload_len"]

\* The flags byte and the chunk-flag test.
parse_ndef_record_flags(d, s) ==
  LET g == GetByte0(d, s.pos, 1)
      o == Observe(d, s, s.pos, 1, g.r)
  IN  IF g.exc # "none" THEN Raise(o, g.exc)
      ELSE
        LET t == [o EXCEPT !.flags = g.val, !.pos = s.pos + 1]
        IN  IF Cf(g.val) # 0 THEN Raise(t, "Chunked")
            ELSE [t EXCEPT !.pc = "rec_type_len"]

\* The type length.
parse_ndef_record_type_len(d, s) ==
  LET g == GetByte0(d, s.pos, 1)
      o == Observe(d, s, s.pos, 1, g.r)
  IN  IF g.exc # "none" THEN Raise(o, g.exc)
      ELSE [o EXCEPT !.type_len = g.val, !.pos = s.pos + 1, !.pc = "rec_payload_len"]

\* The payload length: one byte if SR is set, else four bytes big-endian.
parse_ndef_record_payload_len(d, s) ==
  IF Sr(s.flags) # 0
    THEN LET g == GetByte0(d, s.pos, 1)
             o == Observe(d, s, s.pos, 1, g.r)
         IN  IF g.exc # "none" THEN Raise(o, g.exc)
             ELSE [o EXCEPT !.payload_len = g.val, !.pos = s.pos + 1,
                            !.pc = "rec_id_len"]
    ELSE LET r == get(d, s.pos, 4)
             o == Observe(d, s, s.pos, 4, r)
         IN  IF r.raised THEN Raise(o, "OutOfBounds")
             ELSE [o EXCEPT !.payload_len = FromBytesBig(r.chunk), !.pos = s.pos + 4,
                            !.pc = "rec_id_len"]

\* The id length, read only if IL is set.
parse_ndef_record_id_len(d, s) ==
  IF Il(s.flags) # 0
    THEN LET g == GetByte0(d, s.pos, 1)
             o == Observe(d, s, s.pos, 1, g.r)
         IN  IF g.exc # "none" THEN Raise(o, g.exc)
             ELSE [o EXCEPT !.id_len = g.val, !.pos = s.pos + 1, !.pc = "rec_type"]
    ELSE [s EXCEPT !.id_len = 0, !.pc = "rec_type"]

\* A dispatch on the first byte of the type field, not on the whole field.
DispatchOnFirstByte(tnf, type_field) ==
  LET first == IF type_field = <<>> THEN -1 ELSE type_field[1]
  IN  IF tnf = NdefTnfWellKnownType THEN
        IF first = 85 THEN "uri_prepend"
        ELSE IF first = 84 THEN "text_lang_len"
        ELSE "dump"
      ELSE IF tnf = NdefTnfMediaType THEN
        IF type_field = TypeBt THEN "bt"
        ELSE IF type_field = TypeVcard THEN "vcard"
        ELSE IF type_field = TypeWifi THEN "wifi"
        ELSE "dump"
      ELSE "dump"

\* The sub-decoder that (tnf, type_field) selects.
Dispatch(tnf, type_field) ==
  IF tnf = NdefTnfWellKnownType THEN
    IF type_field = TypeU THEN "uri_prepend"
    ELSE IF type_field = TypeT THEN "text_lang_len"
    ELSE "dump"
  ELSE IF tnf = NdefTnfMediaType THEN
    IF type_field = TypeBt THEN "bt"
    ELSE IF type_field = TypeVcard THEN "vcard"
    ELSE IF type_field = TypeWifi THEN "wifi"
    ELSE "dump"
  ELSE "dump"

\* The same without the skip of the id field.
parse_ndef_record_type_keeps_id(d, s) ==
  LET r == get(d, s.pos, s.type_len)
      o == Observe(d, s, s.pos, s.type_len, r)
  IN  IF r.raised THEN Raise(o, "OutOfBounds")
      ELSE [o EXCEPT !.type_field = r.chunk,
                     !.pos = s.pos + s.type_len,
                     !.sub_pos = s.pos + s.type_len,
                     !.sub_length = s.payload_len,
                     !.pc = Dispatch(Tnf(s.flags), r.chunk)]

\* The type field, the skip of the id field and the call of the
\* sub-decoder with (pos, payload_len).
parse_ndef_record_type(d, s) ==
  LET r == get(d, s.pos, s.type_len)
      o == Observe(d, s, s.pos, s.type_len, r)
  IN  IF r.raised THEN Raise(o, "OutOfBounds")
      ELSE [o EXCEPT !.type_field = r.chunk,
                     !.pos = s.pos + s.type_len + s.id_len,
                     !.sub_pos = s.pos + s.type_len + s.id_len,
                     !.sub_length = s.payload_len,
                     !.pc = Dispatch(Tnf(s.flags), r.chunk)]

\* The record decoder's result dropped: the message decoder keeps its pos.
parse_ndef_record_return_dropped(d, s) ==
  [s EXCEPT !.pos = s.rec_start, !.pc = "msg_loop"]

\* After the sub-decoder returns: pos += payload_len; return pos, which
\* parse_ndef_message assigns to its own pos.
parse_ndef_record_return(d, s) ==
  [s EXCEPT !.pos = s.pos + s.payload_len, !.pc = "msg_loop"]

\* The text put in front of the output instead of behind it.
AppendOutputInFront(s, text) ==
  [s EXCEPT !.output = text \o @, !.blocks = @ + 1,
            !.log = Append(@, [start |-> s.rec_start, text |-> text]),
            !.pc = "rec_return"]

\* ndef.output += text, and back to the record decoder.
AppendOutput(s, text) ==
  [s EXCEPT !.output = @ \o text, !.blocks = @ + 1,
            !.log = Append(@, [start |-> s.rec_start, text |-> text]),
            !.pc = "rec_return"]

(***************************************************************************)
(* The type sub-decoders.                                                  *)
(***************************************************************************)
\* parse_ndef_uri without its pos += 1.
parse_ndef_uri_prepend_keeps_pos(d, s) ==
  LET g == GetByte0(d, s.sub_pos, 1)
      o == Observe(d, s, s.sub_pos, 1, g.r)
  IN  IF g.exc # "none" THEN Raise(o, g.exc)
      ELSE [o EXCEPT !.prepend_type = g.val,
                     !.sub_length = s.sub_length - 1, !.pc = "uri_payload"]

\* parse_ndef_uri: the URI identifier code.
parse_ndef_uri_prepend(d, s) ==
  LET g == GetByte0(d, s.sub_pos, 1)
      o == Observe(d, s, s.sub_pos, 1, g.r)
  IN  IF g.exc # "none" THEN Raise(o, g.exc)
      ELSE [o EXCEPT !.prepend_type = g.val, !.sub_pos = s.sub_pos + 1,
                     !.sub_length = s.sub_length - 1, !.pc = "uri_payload"]

\* parse_ndef_uri: the rest of the payload.
parse_ndef_uri_payload(d, s) ==
  LET r == get(d, s.sub_pos, s.sub_length)
      o == Observe(d, s, s.sub_pos, s.sub_length, r)
  IN  IF r.raised THEN Raise(o, "OutOfBounds")
      ELSE AppendOutput(o, LabelUri \o ndef_uri_prepends(s.prepend_type)
                       \o Utf8Decode(r.chunk) \o Newline)

\* parse_ndef_text: the length of the language code.
parse_ndef_text_lang_len(d, s) ==
  LET g == GetByte0(d, s.sub_pos, 1)
      o == Observe(d, s, s.sub_pos, 1, g.r)
  IN  IF g.exc # "none" THEN Raise(o, g.exc)
      ELSE [o EXCEPT !.lang_len = g.val, !.sub_pos = s.sub_pos + 1,
                     !.sub_length = s.sub_length - 1, !.pc = "text_language"]

\* parse_ndef_text: the language code, read and dropped.
parse_ndef_text_language(d, s) ==
  LET r == get(d, s.sub_pos, s.lang_len)
      o == Observe(d, s, s.sub_pos, s.lang_len, r)
  IN  IF r.raised THEN Raise(o, "OutOfBounds")
      ELSE [o EXCEPT !.sub_pos = s.sub_pos + s.lang_len,
                     !.sub_length = s.sub_length - s.lang_len,
                     !.pc = "text_payload"]

\* parse_ndef_text: the text.
parse_ndef_text_payload(d, s) ==
  LET r == get(d, s.sub_pos, s.sub_length)
      o == Observe(d, s, s.sub_pos, s.sub_length, r)
  IN  IF r.raised THEN Raise(o, "OutOfBounds")
      ELSE AppendOutput(o, LabelText \o Utf8Decode(r.chunk) \o Newline)

\* parse_ndef_bt with a payload of fewer than two bytes taken as an empty
\* MAC without a read.
parse_ndef_bt_short_is_empty(d, s) ==
  IF s.sub_length < 2 THEN AppendOutput(s, LabelBt \o Newline)
  ELSE
    LET r == get(d, s.sub_pos + 2, s.sub_length - 2)
        o == Observe(d, s, s.sub_pos + 2, s.sub_length - 2, r)
    IN  IF r.raised THEN Raise(o, "OutOfBounds")
        ELSE AppendOutput(o, LabelBt \o HexJoin(r.chunk) \o Newline)

\* parse_ndef_bt
parse_ndef_bt(d, s) ==
  LET r == get(d, s.sub_pos + 2, s.sub_length - 2)
      o == Observe(d, s, s.sub_pos + 2, s.sub_length - 2, r)
  IN  IF r.raised THEN Raise(o, "OutOfBounds")
      ELSE AppendOutput(o, LabelBt \o HexJoin(r.chunk) \o Newline)

\* parse_ndef_vcard
parse_ndef_vcard(d, s) ==
  LET r == get(d, s.sub_pos, s.sub_length)
      o == Observe(d, s, s.sub_pos, s.sub_length, r)
  IN  IF r.raised THEN Raise(o, "OutOfBounds")
      ELSE AppendOutput(o, LabelContact \o Utf8Decode(r.chunk) \o Newline)

\* parse_ndef_wifi
parse_ndef_wifi(d, s) ==
  LET r == get(d, s.sub_pos, s.sub_length)
      o == Observe(d, s, s.sub_pos, s.sub_length, r)
  IN  IF r.raised THEN Raise(o, "OutOfBounds")
      ELSE AppendOutput(o, LabelWifi \o HexJoin(r.chunk) \o Newline)

\* The prefix parse_ndef_record passes to Ndef.dump.
DumpPrefix(tnf) ==
  IF tnf = NdefTnfWellKnownType THEN PrefixUnknownWellKnown
  ELSE IF tnf = NdefTnfMediaType THEN PrefixUnknownMedia
  ELSE PrefixUnsupportedTnf

\* Ndef.dump(prefix, pos, length) with force_hex = False.
dump(d, s) ==
  LET r == get(d, s.sub_pos, s.sub_length)
      o == Observe(d, s, s.sub_pos, s.sub_length, r)
      prefix == DumpPrefix(Tnf(s.flags))
      head == IF prefix # <<>> THEN prefix \o ColonSpace ELSE <<>>
  IN  IF r.raised THEN Raise(o, "OutOfBounds")
      ELSE IF AllPrintable(r.chunk)
        THEN AppendOutput(o, head \o Utf8Decode(r.chunk) \o Newline)
        ELSE AppendOutput(o, head \o HexJoin(r.chunk) \o Newline)

(***************************************************************************)
(* parse_ndef: what it returns.                                            *)
(***************************************************************************)
\* str(e) of the exception raised.
ExceptionText(e) ==
  CASE e = "OutOfBounds" -> OutOfBoundsText
    [] e = "Chunked" -> ChunkedText
    [] OTHER -> IndexErrorText

\* parse_ndef without its test of message_count.
parse_ndef_return_untested(d, s) ==
  [s EXCEPT !.result = Strip(s.output), !.pc = "done"]

\* After parse_ndef_tlv returned message_count.
parse_ndef_return(d, s) ==
  IF s.ret = 0
    THEN [s EXCEPT !.result = NoMessagesText, !.pc = "done"]
    ELSE [s EXCEPT !.result = Strip(s.output), !.pc = "done"]

\* An except clause that keeps what was decoded before the error.
parse_ndef_except_keeps_output(d, s) ==
  [s EXCEPT !.result = Strip(s.output \o ErrorPrefix \o ExceptionText(s.exc)),
            !.pc = "done"]

\* No except clause: the exception leaves parse_ndef, which returns nothing.
parse_ndef_except_propagates(d, s) == [s EXCEPT !.pc = "done"]

\* except Exception as e
parse_ndef_except(d, s) ==
  [s EXCEPT !.result = ErrorPrefix \o ExceptionText(s.exc), !.pc = "done"]

(***************************************************************************)
(* One step of a parse that is under way, and a parse run to its end.      *)
(***************************************************************************)
\* One more step taken.
Tick(s) == [s EXCEPT !.steps = @ + 1]

Step(d, s) ==
  Tick(
  CASE s.pc = "tlv_loop" -> parse_ndef_tlv_type(d, s)
    [] s.pc = "tlv_len" -> parse_ndef_tlv_len(d, s)
    [] s.pc = "tlv_len_long" -> parse_ndef_tlv_len_long(d, s)
    [] s.pc = "tlv_value" -> parse_ndef_tlv_value(d, s)
    [] s.pc = "msg_loop" -> parse_ndef_message(d, s)
    [] s.pc = "rec_flags" -> parse_ndef_record_flags(d, s)
    [] s.pc = "rec_type_len" -> parse_ndef_record_type_len(d, s)
    [] s.pc = "rec_payload_len" -> parse_ndef_record_payload_len(d, s)
    [] s.pc = "rec_id_len" -> parse_ndef_record_id_len(d, s)
    [] s.pc = "rec_type" -> parse_ndef_record_type(d, s)
    [] s.pc = "uri_prepend" -> parse_ndef_uri_prepend(d, s)
    [] s.pc = "uri_payload" -> parse_ndef_uri_payload(d, s)
    [] s.pc = "text_lang_len" -> parse_ndef_text_lang_len(d, s)
    [] s.pc = "text_language" -> parse_ndef_text_language(d, s)
    [] s.pc = "text_payload" -> parse_ndef_text_payload(d, s)
    [] s.pc = "bt" -> parse_ndef_bt(d, s)
    [] s.pc = "vcard" -> parse_ndef_vcard(d, s)
    [] s.pc = "wifi" -> parse_ndef_wifi(d, s)
    [] s.pc = "dump" -> dump(d, s)
    [] s.pc = "rec_return" -> parse_ndef_record_return(d, s)
    [] s.pc = "parse_ndef_ret" -> parse_ndef_return(d, s)
    [] s.pc = "except" -> parse_ndef_except(d, s)
    [] OTHER -> s)

\* The state in which a parse that is under way ends.  The bound on the
\* number of steps only guards the evaluation: no parse the code can run
\* takes that many.
RECURSIVE RunFor(_, _, _)
RunFor(d, s, fuel) ==
  IF s.pc = "done" \/ fuel = 0 THEN s ELSE RunFor(d, Step(d, s), fuel - 1)

Run(d, s) == RunFor(d, s, 40 + 20 * Len(d))

\* parse_ndef(d): the final state of the call.
parse_ndef(d) == Run(d, Tick(parse_ndef_call(d, NdefInit)))


(***************************************************************************)
(* The buffers parsed.                                                     *)
(***************************************************************************)
\* Every buffer of at most MaxLen bytes over Alphabet, and direct calls of
\* parse_ndef_tlv with already_parsed up to MaxAlready.
MaxLen == 4
MaxAlready == 1

\* Padding, LockControl, NdefMessage, the flags byte 0x10 (SR, TNF 0), which
\* is no TLV type, Terminator and 0xFF.
Alphabet == {0, 1, 3, 16, 254, 255}

ShortBuffers == UNION {[1..n -> Alphabet] : n \in 0..MaxLen}

\* Records: flags, type length, payload length, [id length,] type, [id,]
\* payload.
RecUri == <<17, 1, 2, 85, 1, 110>>
RecUriEmpty == <<17, 1, 0, 85>>
RecUriUtf8 == <<17, 1, 3, 85, 0, 209, 177>>
RecText == <<209, 1, 2, 84, 0, 88>>
RecTextEmpty == <<17, 1, 0, 84>>
RecTextLang2 == <<17, 1, 1, 84, 2>>
RecTextLang4 == <<17, 1, 1, 84, 4>>
RecBt == <<18, 32, 4>> \o TypeBt \o <<0, 0, 170, 187>>
RecBtShort == <<18, 32, 1>> \o TypeBt \o <<7>>
RecVcard == <<18, 10, 2>> \o TypeVcard \o <<72, 105>>
RecWifi == <<18, 23, 2>> \o TypeWifi \o <<16, 74>>
RecUnknownWellKnown == <<17, 1, 1, 88, 32>>
RecUnknownMedia == <<18, 1, 1, 97, 127>>
RecDumpEmpty == <<16, 0, 0>>
RecWithId == <<25, 1, 1, 1, 85, 170, 0>>
RecLong == <<1, 1, 0, 0, 0, 1, 85, 0>>
RecChunked == <<161, 1, 0>>
RecChunkedShort == <<177, 1, 0>>

\* Records whose (TNF, type) is near an entry of the dispatch table, each
\* with the payload "A": the types "UU", "u" and the empty type under
\* Well-Known, 'U', 'T' and "text/vcar" under Media, "text/vcard" under
\* Well-Known, and 'U' under every other TNF.
DispatchRecords ==
  {<<17, 2, 1, 85, 85, 65>>, <<17, 1, 1, 117, 65>>, <<17, 0, 1, 65>>,
   <<18, 1, 1, 85, 65>>, <<18, 1, 1, 84, 65>>,
   <<18, 9, 1>> \o SubSeq(TypeVcard, 1, 9) \o <<65>>,
   <<17, 10, 1>> \o TypeVcard \o <<65>>}
  \cup {<<16 + tnf, 1, 1, 85, 65>> : tnf \in {0, 3, 4, 5, 6, 7}}

\* Records of the unknown Well-Known type 'X' for the generic dump, with
\* payloads at the edges of the printable set.
DumpRecords ==
  {<<17, 1, Len(p), 88>> \o p :
     p \in {<<9, 10, 13>>, <<32, 126>>, <<65, 66>>, <<65, 127>>, <<127>>, <<31>>,
            <<65, 8>>, <<11>>, <<12, 65>>, <<0>>, <<128>>, <<65, 255, 66>>}}

\* URI records "n" with the prefix codes of the table and codes outside it.
UriRecords == {<<17, 1, 2, 85, code, 110>> : code \in (0..7) \cup {35, 255}}

\* Records with IL set that end with their type field: for each branch of
\* the dispatch, with a payload length of 0 and of 2 and an id length of
\* 0, 1 and 200.
IdRecords ==
  {<<24 + tt[1], Len(tt[2]), pl, idl>> \o tt[2] :
     tt \in {<<1, TypeU>>, <<1, TypeT>>, <<1, <<88>>>>, <<2, TypeBt>>,
             <<2, TypeVcard>>, <<2, TypeWifi>>},
     pl \in {0, 2}, idl \in {0, 1, 200}}

FirstRecords ==
  {RecUri, RecUriEmpty, RecUriUtf8, RecText, RecTextEmpty, RecTextLang2,
   RecTextLang4, RecBt, RecBtShort, RecVcard, RecWifi, RecUnknownWellKnown,
   RecUnknownMedia, RecDumpEmpty, RecWithId, RecLong, RecChunked,
   RecChunkedShort}
NextRecords == {RecDumpEmpty, RecChunked}

\* The values of an NdefMessage TLV: no record, one, or two.
Messages ==
  {<<>>} \cup FirstRecords \cup {a \o b : a \in FirstRecords, b \in NextRecords}

\* The length field of a TLV, in short or long form.
LengthField(n, long) == IF long THEN <<255, n \div 256, n % 256>> ELSE <<n>>

\* An NdefMessage TLV that declares Len(m) + delta bytes.
MessageTlv(m, long, delta) ==
  <<NdefTlvNdefMessage>> \o LengthField(Max(Len(m) + delta, 0), long) \o m

\* What stands before and after the NdefMessage TLV.
Before == {<<>>, <<0>>, <<1, 1, 170>>, <<253, 255, 0, 1, 170>>, <<3, 3, 16, 0, 0>>}
After ==
  {<<>>, <<254>>, <<7>>, <<254, 0>>, <<1, 1, 170>>, <<1, 255, 0, 1, 170>>, <<2, 9>>}

\* b without its last cut bytes.
Truncated(b, cut) == SubSeq(b, 1, Max(Len(b) - cut, 0))

StructuredBuffers ==
  {x \o MessageTlv(m, FALSE, 0) \o y : x \in Before, m \in Messages, y \in After}
  \cup {Truncated(MessageTlv(m, long, delta) \o y, cut) :
          m \in {<<>>} \cup FirstRecords, long \in BOOLEAN, delta \in {-1, 0, 1},
          y \in After, cut \in {0, 1}}
  \cup {MessageTlv(m \o n, FALSE, 0) \o y :
          m \in DispatchRecords \cup DumpRecords \cup UriRecords, n \in {<<>>, RecUri}, y \in {<<>>, <<254>>}}
  \cup {MessageTlv(m, FALSE, 0) \o y : m \in IdRecords, y \in {<<>>, <<170>>}}

\* Buffers written out byte by byte: a URI record "nfc.re" with prefix
\* code 1 and a Terminator; a Text record with an empty payload followed by
\* a Terminator, by a zero byte, and, in a TLV of length 4, by a zero byte
\* and a Terminator; a URI record with flags 0xF1 and with flags 0xD1; a
\* decoded record and then a URI record that declares one payload byte
\* more than the buffer holds; a record with a four-byte payload length
\* and a two-byte id; a URI record and a Text record with an empty
\* payload, each followed in its message by a record with flags 0x01; a
\* Text record whose language length passes its one-byte payload, followed
\* by a LockControl TLV and by a record with an id field; an empty
\* message, a message of two records and a Terminator; a record with
\* flags 0xB1 that declares nine payload bytes and holds none.
Scenarios ==
  {<<3, 11, 209, 1, 7, 85, 1, 110, 102, 99, 46, 114, 101, 254>>,
   <<3, 3, 209, 1, 0, 84, 254>>,
   <<3, 3, 209, 1, 0, 84, 0>>,
   <<3, 4, 209, 1, 0, 84, 0, 254>>,
   <<3, 5, 241, 1, 1, 85, 0>>,
   <<3, 5, 209, 1, 1, 85, 0>>,
   <<3, 9, 16, 0, 0, 209, 1, 3, 85, 1, 110>>,
   <<3, 11, 9, 1, 0, 0, 0, 1, 2, 85, 170, 187, 0, 254>>,
   <<3, 10, 17, 1, 0, 85, 1, 0, 0, 0, 0, 0>>,
   <<3, 10, 17, 1, 0, 84, 1, 0, 0, 0, 0, 0>>,
   <<3, 5, 17, 1, 1, 84, 3, 1, 1, 170>>,
   <<3, 10, 17, 1, 1, 84, 5, 25, 0, 0, 1, 170>>,
   <<3, 0, 3, 6, 16, 0, 0, 16, 0, 0, 254>>,
   <<3, 4, 177, 1, 9, 85>>}

Buffers == ShortBuffers \cup StructuredBuffers \cup Scenarios

(***************************************************************************)
(* The specification.                                                      *)
(***************************************************************************)
Init ==
  /\ data \in Buffers
  /\ st = NdefInit

\* parse_ndef(data) is called.
CallParseNdef ==
  /\ st.pc = "idle"
  /\ st' = Tick(parse_ndef_call(data, st))
  /\ UNCHANGED data

\* parse_ndef_tlv(ndef, 0, len(data), already_parsed) is called directly,
\* with a count other than the 0 that parse_ndef passes.
CallParseNdefTlv ==
  /\ st.pc = "idle"
  /\ \E already_parsed \in 1..MaxAlready :
       st' = Tick(parse_ndef_tlv_call(data, st, already_parsed))
  /\ UNCHANGED data

ParseNdefTlvType ==
  /\ st.pc = "tlv_loop"
  /\ st' = Tick(parse_ndef_tlv_type(data, st))
  /\ UNCHANGED data

ParseNdefTlvLen ==
  /\ st.pc = "tlv_len"
  /\ st' = Tick(parse_ndef_tlv_len(data, st))
  /\ UNCHANGED data

ParseNdefTlvLenLong ==
  /\ st.pc = "tlv_len_long"
  /\ st' = Tick(parse_ndef_tlv_len_long(data, st))
  /\ UNCHANGED data

ParseNdefTlvValue ==
  /\ st.pc = "tlv_value"
  /\ st' = Tick(parse_ndef_tlv_value(data, st))
  /\ UNCHANGED data

ParseNdefMessage ==
  /\ st.pc = "msg_loop"
  /\ st' = Tick(parse_ndef_message(data, st))
  /\ UNCHANGED data

ParseNdefRecordFlags ==
  /\ st.pc = "rec_flags"
  /\ st' = Tick(parse_ndef_record_flags(data, st))
  /\ UNCHANGED data

ParseNdefRecordTypeLen ==
  /\ st.pc = "rec_type_len"
  /\ st' = Tick(parse_ndef_record_type_len(data, st))
  /\ UNCHANGED data

ParseNdefRecordPayloadLen ==
  /\ st.pc = "rec_payload_len"
  /\ st' = Tick(parse_ndef_record_payload_len(data, st))
  /\ UNCHANGED data

ParseNdefRecordIdLen ==
  /\ st.pc = "rec_id_len"
  /\ st' = Tick(parse_ndef_record_id_len(data, st))
  /\ UNCHANGED data

ParseNdefRecordType ==
  /\ st.pc = "rec_type"
  /\ st' = Tick(parse_ndef_record_type(data, st))
  /\ UNCHANGED data

ParseNdefUriPrepend ==
  /\ st.pc = "uri_prepend"
  /\ st' = Tick(parse_ndef_uri_prepend(data, st))
  /\ UNCHANGED data

ParseNdefUriPayload ==
  /\ st.pc = "uri_payload"
  /\ st' = Tick(parse_ndef_uri_payload(data, st))
  /\ UNCHANGED data

ParseNdefTextLangLen ==
  /\ st.pc = "text_lang_len"
  /\ st' = Tick(parse_ndef_text_lang_len(data, st))
  /\ UNCHANGED data

ParseNdefTextLanguage ==
  /\ st.pc = "text_language"
  /\ st' = Tick(parse_ndef_text_language(data, st))
  /\ UNCHANGED data

ParseNdefTextPayload ==
  /\ st.pc = "text_payload"
  /\ st' = Tick(parse_ndef_text_payload(data, st))
  /\ UNCHANGED data

ParseNdefBt ==
  /\ st.pc = "bt"
  /\ st' = Tick(parse_ndef_bt(data, st))
  /\ UNCHANGED data

ParseNdefVcard ==
  /\ st.pc = "vcard"
  /\ st' = Tick(parse_ndef_vcard(data, st))
  /\ UNCHANGED data

ParseNdefWifi ==
  /\ st.pc = "wifi"
  /\ st' = Tick(parse_ndef_wifi(data, st))
  /\ UNCHANGED data

Dump ==
  /\ st.pc = "dump"
  /\ st' = Tick(dump(data, st))
  /\ UNCHANGED data

ParseNdefRecordReturn ==
  /\ st.pc = "rec_return"
  /\ st' = Tick(parse_ndef_record_return(data, st))
  /\ UNCHANGED data

ParseNdefReturn ==
  /\ st.pc = "parse_ndef_ret"
  /\ st' = Tick(parse_ndef_return(data, st))
  /\ UNCHANGED data

ParseNdefExcept ==
  /\ st.pc = "except"
  /\ st' = Tick(parse_ndef_except(data, st))
  /\ UNCHANGED data

Next ==
  \/ CallParseNdef
  \/ CallParseNdefTlv
  \/ ParseNdefTlvType
  \/ ParseNdefTlvLen
  \/ ParseNdefTlvLenLong
  \/ ParseNdefTlvValue
  \/ ParseNdefMessage
  \/ ParseNdefRecordFlags
  \/ ParseNdefRecordTypeLen
  \/ ParseNdefRecordPayloadLen
  \/ ParseNdefRecordIdLen
  \/ ParseNdefRecordType
  \/ ParseNdefUriPrepend
  \/ ParseNdefUriPayload
  \/ ParseNdefTextLangLen
  \/ ParseNdefTextLanguage
  \/ ParseNdefTextPayload
  \/ ParseNdefBt
  \/ ParseNdefVcard
  \/ ParseNdefWifi
  \/ Dump
  \/ ParseNdefRecordReturn
  \/ ParseNdefReturn
  \/ ParseNdefExcept

Spec == Init /\ [][Next]_vars

\* The interpreter runs a call to its end.
FairSpec == Spec /\ WF_vars(Next)


(***************************************************************************)
(* Two calls of parse_ndef on two buffers, their steps interleaved.  Here  *)
(* `data` is the pair of buffers and `st` the pair of the calls' states:   *)
(* each call constructs its own Ndef object and has its own locals.  A     *)
(* thread switch inside a step changes nothing a step of the other call    *)
(* uses, so the steps are taken as atomic.                                 *)
(***************************************************************************)
ConcurrentBuffers ==
  {<<3, 11, 209, 1, 7, 85, 1, 110, 102, 99, 46, 114, 101, 254>>,
   <<3, 6, 209, 1, 2, 84, 0, 88, 254>>,
   <<3, 3, 16, 0, 0, 3, 6, 17, 1, 2, 85, 4, 110>>,
   <<3, 6, 17, 1, 2, 85, 2, 110, 3, 3, 177, 1, 0>>,
   <<3, 3, 16, 0, 0, 3, 5, 209, 1, 3, 85, 1>>,
   <<0, 0, 254>>,
   <<3, 3, 16, 0, 0, 7>>}

ConcurrentInit ==
  /\ data \in {p \in ConcurrentBuffers \X ConcurrentBuffers : p[1] # p[2]}
  /\ st = <<NdefInit, NdefInit>>

\* One output accumulator for both calls: what call i appends shows in the
\* other call's output too.
SharedOutputStep(sts, i, new) ==
  [j \in {1, 2} |-> IF j = i THEN new ELSE [sts[j] EXCEPT !.output = new.output]]

\* Call i has taken a step to `new`: its Ndef object (data, output) and its
\* locals are its own, nothing of the other call is touched.
OwnStep(sts, i, new) == [sts EXCEPT ![i] = new]

\* Thread i calls parse_ndef on its buffer.
ThreadCall(i) ==
  /\ st[i].pc = "idle"
  /\ st' = OwnStep(st, i, Tick(parse_ndef_call(data[i], st[i])))
  /\ UNCHANGED data

\* Thread i takes the next step of its call.
ThreadStep(i) ==
  /\ st[i].pc \notin {"idle", "done"}
  /\ st' = OwnStep(st, i, Step(data[i], st[i]))
  /\ UNCHANGED data

ConcurrentNext == \E i \in {1, 2} : ThreadCall(i) \/ ThreadStep(i)

ConcurrentSpec == ConcurrentInit /\ [][ConcurrentNext]_vars


(***************************************************************************)
(* Properties.                                                             *)
(***************************************************************************)
\* The call has returned to its caller.
Done == st.pc = "done"

\* parse_ndef has returned its result.
Returned == st.pc = "done" /\ st.entry = "parse_ndef"

\* What a caller sees of a finished call: the result of parse_ndef, the
\* count parse_ndef_tlv returned (-1 if it raised) and the exception.
Outcome(s) == <<s.result, s.ret, s.exc>>

\* The same call as the one s belongs to, from its start, on buffer d.
Restart(d, s) ==
  IF s.entry = "parse_ndef" THEN Tick(parse_ndef_call(d, NdefInit))
  ELSE Tick(parse_ndef_tlv_call(d, NdefInit, s.already_parsed))

\* The last call of get asked for a range that passes the end of the buffer.
LastGetPassesEnd == st.lg.called /\ st.lg.pos + st.lg.length > Len(data)

\* C1: every index read lies in [0, len(data)); a call of get whose range
\* passes the end of the buffer reads nothing, raises, and the parse ends
\* with the out-of-bounds error; a call that returns bytes returns them from
\* inside the buffer.
C1_ReadsInBounds ==
  /\ st.reads \subseteq 0..(Len(data) - 1)
  /\ LastGetPassesEnd =>
       /\ st.lg.raised /\ st.lg.n = 0
       /\ st.exc = "OutOfBounds"
       /\ st.pc \in {"except", "done"}
       /\ Returned => st.result = ErrorPrefix \o OutOfBoundsText
  /\ (st.lg.called /\ ~st.lg.raised /\ st.lg.n > 0) =>
       (0 <= st.lg.pos /\ st.lg.pos + st.lg.n <= Len(data))

\* A read past the end was refused after a block had been decoded.
C1_Witness ==
  /\ LastGetPassesEnd /\ st.lg.raised
  /\ Returned /\ st.blocks > 0 /\ st.reads # {}

\* C2: every call get(pos, length) either raises because pos + length
\* exceeds the buffer size or returns exactly length bytes.
C2_GetReturnsLength ==
  st.lg.called =>
    IF st.lg.raised THEN st.lg.pos + st.lg.length > Len(data)
    ELSE st.lg.n = st.lg.length

\* C3: a record that was decoded lies inside its enclosing TLV: it ends at
\* or before the TLV's end, and no byte at or after that end was read for it.
C3_RecordInsideTlv ==
  st.pc = "rec_return" =>
    /\ st.pos + st.payload_len <= st.msg_end
    /\ \A i \in st.reads : i >= st.rec_start => i < st.msg_end

\* C4: when a read went out of bounds, parse_ndef returns the error
\* description alone.
C4_OutOfBoundsErrorOnly ==
  (Returned /\ (st.lg.raised \/ st.exc = "OutOfBounds")) =>
    st.result = ErrorPrefix \o OutOfBoundsText

\* The read that failed came after a block had been appended.
C4_Witness ==
  Returned /\ st.lg.raised /\ st.exc = "OutOfBounds" /\ st.output # <<>>

\* C5: once the record decoder has read a flags byte with bit 5 set, the
\* call fails with the chunked-record error and parse_ndef returns that
\* error alone.
C5_ChunkedFails ==
  ((st.flags \div 32) % 2 = 1) =>
    /\ st.exc = "Chunked"
    /\ st.pc \in {"except", "done"}
    /\ Returned => st.result = ErrorPrefix \o ChunkedText

\* A chunked record in the second message, after a record was decoded.
C5_Witness ==
  /\ Returned /\ (st.flags \div 32) % 2 = 1
  /\ st.message_count >= 2 /\ st.output # <<>>

\* The TLV types the scanner knows.
KnownTlvTypes ==
  {NdefTlvPadding, NdefTlvLockControl, NdefTlvMemoryControl, NdefTlvNdefMessage,
   NdefTlvProprietary, NdefTlvTerminator}

\* C6: once the scanner has read a type byte it does not know, it has
\* returned 0, whatever it had counted and whatever count it was given, and
\* parse_ndef returns the no-messages text and nothing of the output.
C6_UnknownTypeReturnsZero ==
  (st.tlv_type \notin KnownTlvTypes) =>
    /\ st.ret = 0 /\ st.exc = "none"
    /\ st.pc \in {"parse_ndef_ret", "done"}
    /\ st.pos = st.tlv_start + 1
    /\ Returned => st.result = NoMessagesText

\* An unknown type byte after a message whose record was decoded.
C6_Witness ==
  /\ Returned /\ st.tlv_type \notin KnownTlvTypes
  /\ st.message_count >= 1 /\ st.output # <<>>

\* What may follow a Terminator.
AfterTerminator == {<<>>, <<0>>, <<255>>, <<3, 0>>}

\* C7: when the scanner read a Terminator at p, no index above p was read,
\* and the call gives the same outcome on every buffer that agrees with
\* this one up to p.
C7_NothingAfterTerminator ==
  (Done /\ st.term_pos # -1) =>
    /\ \A i \in st.reads : i <= st.term_pos
    /\ \A y \in AfterTerminator :
         LET d2 == SubSeq(data, 1, st.term_pos + 1) \o y
         IN  Outcome(Run(d2, Restart(d2, st))) = Outcome(st)

\* The cursor moved forward since the start of the last iteration of the
\* scanner's loop and of the message decoder's loop.
CursorAdvanced ==
  /\ st.pc = "tlv_loop" => st.pos > st.tlv_start
  /\ st.pc = "msg_loop" => st.pos > st.rec_start

\* A call takes at most this many steps on buffer d: a step for the call,
\* at most four for each byte, and the steps that end it.
StepBound(d) == 4 * Len(d) + 8

\* C8: every iteration of the two loops that does not abort leaves the
\* cursor greater than it found it, a call that has not ended can take a
\* step, and it ends within StepBound steps.
C8_Terminates ==
  /\ CursorAdvanced
  /\ st.steps <= StepBound(data)
  /\ Done \/ ENABLED Next

\* The same as a property of behaviours, under FairSpec: every call ends.
EventuallyDone == <>Done

\* A call that ended after two messages and two records.
C8_Witness == Done /\ st.exc = "none" /\ st.message_count >= 2 /\ st.blocks >= 2

\* d with the length byte at index i rewritten in long form.
LongForm(d, i) ==
  SubSeq(d, 1, i) \o <<255, 0, d[i + 1]>> \o SubSeq(d, i + 2, Len(d))

\* d with the long length field at indices i..i+2 rewritten in short form.
ShortForm(d, i) ==
  SubSeq(d, 1, i) \o <<d[i + 3]>> \o SubSeq(d, i + 4, Len(d))

\* C9: when the scanner has read the length field of a TLV and the length
\* is below 0xFF, the call on the buffer that holds the same length in the
\* other form (long for short, short for long) has the same outcome.
C9_LongFormSameOutcome ==
  /\ (st.pc = "tlv_value" /\ st.len_type < 255) =>
       LET d2 == LongForm(data, st.pos - 1)
       IN  Outcome(Run(d2, Restart(d2, st))) = Outcome(Run(data, st))
  /\ (st.pc = "tlv_value" /\ st.len_type = 255 /\ st.tlv_len < 255) =>
       LET d2 == ShortForm(data, st.pos - 3)
       IN  Outcome(Run(d2, Restart(d2, st))) = Outcome(Run(data, st))

\* Zero or more padding bytes and a terminator.
PaddingThenTerminator(d) ==
  /\ Len(d) >= 1
  /\ d[Len(d)] = NdefTlvTerminator
  /\ \A i \in 1..(Len(d) - 1) : d[i] = NdefTlvPadding

\* C10, as stated: on padding bytes and a terminator parse_ndef returns an
\* empty result.
C10_EmptyResult ==
  (PaddingThenTerminator(data) /\ Returned) => st.result = <<>>

\* C10, amended: on padding bytes and a terminator the scanner reads one
\* byte at a time and no length field, the cursor is the number of bytes
\* read, nothing is appended to the output, nothing is raised, the count
\* returned is the count given (0 from parse_ndef), and parse_ndef returns
\* the no-messages text.
C10_PaddingThenTerminator ==
  PaddingThenTerminator(data) =>
    /\ st.output = <<>> /\ st.blocks = 0 /\ st.exc = "none"
    /\ st.message_count = st.already_parsed
    /\ st.pc \in {"idle", "tlv_loop", "parse_ndef_ret", "done"}
    /\ st.lg.called => (st.lg.length = 1 /\ st.lg.pos = st.pos - 1)
    /\ st.reads = 0..(st.pos - 1)
    /\ Done => (st.ret = st.already_parsed /\ st.term_pos = Len(data) - 1
                /\ st.pos = Len(data))
    /\ Returned => (st.ret = 0 /\ st.result = NoMessagesText)

\* Two padding bytes or more, then the terminator, parsed by parse_ndef.
C10_Witness ==
  PaddingThenTerminator(data) /\ Len(data) >= 3 /\ Returned /\ st.pos = Len(data)

\* C11, as stated: when the scanner's loop ends because the cursor reached
\* the end of the buffer, with no Terminator read and nothing raised, the
\* call returns the count accumulated so far and parse_ndef returns the text
\* of the records decoded (the output, stripped).
C11_EndOfBufferReturnsText ==
  st.at_end =>
    /\ st.exc = "none" /\ st.term_pos = -1
    /\ st.ret = st.message_count
    /\ st.pc \in {"parse_ndef_ret", "done"}
    /\ Returned => st.result = Strip(st.output)

\* C11, amended: the same, and parse_ndef returns the stripped output when
\* the count is at least 1 and the no-messages text when the count is 0.
C11_EndOfBufferNoError ==
  st.at_end =>
    /\ st.exc = "none" /\ st.term_pos = -1
    /\ st.pos >= Len(data)
    /\ st.ret = st.message_count
    /\ st.pc \in {"parse_ndef_ret", "done"}
    /\ Returned =>
         st.result = IF st.message_count = 0 THEN NoMessagesText
                     ELSE Strip(st.output)

\* The buffer ended after two messages and without a Terminator.
C11_Witness ==
  /\ Returned /\ st.at_end /\ st.message_count >= 2 /\ st.blocks >= 1
  /\ st.result = Strip(st.output) /\ st.result # <<>>

\* a is a prefix of b.
IsPrefix(a, b) == Len(a) <= Len(b) /\ SubSeq(b, 1, Len(a)) = a

\* The texts of the blocks of log, one after the other.
RECURSIVE ConcatBlocks(_)
ConcatBlocks(log) ==
  IF log = <<>> THEN <<>> ELSE log[1].text \o ConcatBlocks(Tail(log))

\* The labels a block starts with.
BlockLabels ==
  {LabelUri, LabelText, LabelBt, LabelContact, LabelWifi,
   PrefixUnknownWellKnown \o ColonSpace, PrefixUnknownMedia \o ColonSpace,
   PrefixUnsupportedTnf \o ColonSpace}

\* A record is being decoded and its sub-decoder has not appended yet.
RecordInProgress ==
  st.pc \in {"rec_flags", "rec_type_len", "rec_payload_len", "rec_id_len",
             "rec_type", "uri_prepend", "uri_payload", "text_lang_len",
             "text_language", "text_payload", "bt", "vcard", "wifi", "dump"}

\* The output is the blocks appended so far, one per completed record, in
\* increasing order of record start, each starting with a label.
OutputIsBlocksInOrder ==
  /\ st.output = ConcatBlocks(st.log)
  /\ \A i \in 1..(Len(st.log) - 1) : st.log[i].start < st.log[i + 1].start
  /\ \A i \in 1..Len(st.log) :
       /\ 0 <= st.log[i].start /\ st.log[i].start < Len(data)
       /\ \E l \in BlockLabels : IsPrefix(l, st.log[i].text)
       /\ st.log[i].text[Len(st.log[i].text)] = 10
  /\ RecordInProgress => \A i \in 1..Len(st.log) : st.log[i].start < st.rec_start
  /\ (st.pc = "rec_return" \/ (st.pc = "msg_loop" /\ st.rec_start # -1)) =>
       (st.log # <<>> /\ st.log[Len(st.log)].start = st.rec_start)

\* On success the result is the output without the white space that ends
\* it: every block, in order.
ResultHoldsBlocks ==
  (Returned /\ st.exc = "none" /\ st.ret >= 1) =>
    /\ st.result = RStrip(st.output)
    /\ st.output # <<>> => ~IsSpace(st.output[1])

\* C12: at every point of a parse the output is the concatenation, in
\* increasing order of record start, of one labeled block per completed
\* record; a step only appends to it; on success the result holds every
\* block in that order.
C12_OutputAppendOnly ==
  /\ [](OutputIsBlocksInOrder /\ ResultHoldsBlocks)
  /\ [][IsPrefix(st.output, st'.output)]_vars

\* A parse that ended with three blocks or more.
C12_Witness ==
  /\ Returned /\ st.exc = "none" /\ Len(st.log) >= 3
  /\ st.result = RStrip(st.output)

\* The dispatch table of the claim: the label of the block for (tnf, type).
ExpectedLabel(tnf, type) ==
  CASE tnf = 1 /\ type = <<85>> -> LabelUri
    [] tnf = 1 /\ type = <<84>> -> LabelText
    [] tnf = 2 /\ type = TypeBt -> LabelBt
    [] tnf = 2 /\ type = TypeVcard -> LabelContact
    [] tnf = 2 /\ type = TypeWifi -> LabelWifi
    [] tnf = 1 /\ type \notin {<<85>>, <<84>>} ->
         PrefixUnknownWellKnown \o ColonSpace
    [] tnf = 2 /\ type \notin {TypeBt, TypeVcard, TypeWifi} ->
         PrefixUnknownMedia \o ColonSpace
    [] tnf \in {0, 3, 4, 5, 6, 7} -> PrefixUnsupportedTnf \o ColonSpace

\* The pair is one of the five of the table.
Recognized(tnf, type) ==
  \/ tnf = 1 /\ type \in {<<85>>, <<84>>}
  \/ tnf = 2 /\ type \in {TypeBt, TypeVcard, TypeWifi}

\* C13: the block of a decoded record starts with the label the table
\* gives for its (TNF, type field), compared as whole byte strings; a
\* record outside the table goes to the generic dump, which, when the
\* payload lies in the buffer, appends exactly one block and raises
\* nothing, and the message decoder goes on from the end of the record.
C13_DispatchTable ==
  LET tnf == st.flags % 8
  IN  /\ st.pc = "rec_return" =>
           /\ st.log # <<>>
           /\ st.log[Len(st.log)].start = st.rec_start
           /\ IsPrefix(ExpectedLabel(tnf, st.type_field),
                       st.log[Len(st.log)].text)
           /\ Step(data, st).pc = "msg_loop"
           /\ Step(data, st).pos = st.pos + st.payload_len
      /\ st.pc \in {"uri_prepend", "text_lang_len", "bt", "vcard", "wifi"} =>
           Recognized(tnf, st.type_field)
      /\ st.pc = "dump" =>
           /\ ~Recognized(tnf, st.type_field)
           /\ st.sub_pos + st.payload_len <= Len(data) =>
                LET n == Step(data, st)
                IN  /\ n.pc = "rec_return" /\ n.exc = "none"
                    /\ Len(n.log) = Len(st.log) + 1

\* A record of type "UU" got the generic block and the record after it was
\* decoded too.
C13_Witness ==
  /\ Returned /\ st.exc = "none" /\ Len(st.log) = 2
  /\ IsPrefix(PrefixUnknownWellKnown, st.log[1].text)
  /\ IsPrefix(LabelUri, st.log[2].text)
  /\ SubSeq(data, 3, 7) = <<17, 2, 1, 85, 85>>

\* The sixteen hexadecimal digits, upper case.
HexChars == <<48, 49, 50, 51, 52, 53, 54, 55, 56, 57, 65, 66, 67, 68, 69, 70>>

\* Two digits for each byte, a space between two bytes.
SpacedHex(bytes) ==
  [i \in 1..(3 * Len(bytes) - 1) |->
     LET b == bytes[(i + 2) \div 3]
     IN  IF i % 3 = 0 THEN 32
         ELSE IF i % 3 = 1 THEN HexChars[(b \div 16) + 1]
         ELSE HexChars[(b % 16) + 1]]

\* The bytes the claim takes for printable.
PrintableByte(b) == b \in {9, 10, 13} \/ (32 <= b /\ b <= 126)

\* C14: the block of a generic-dump record is its label, ": ", then the
\* payload bytes as they are if every one of them is tab, LF, CR or in
\* 0x20..0x7E, and otherwise the whole payload as upper-case two-digit hex
\* separated by spaces, then a newline.
C14_PrintableOrHex ==
  (st.pc = "rec_return" /\ ~Recognized(st.flags % 8, st.type_field)) =>
    LET payload == SubSeq(data, st.pos + 1, st.pos + st.payload_len)
        text == st.log[Len(st.log)].text
        head == ExpectedLabel(st.flags % 8, st.type_field)
    IN  /\ st.pos + st.payload_len <= Len(data)
        /\ text = head \o (IF \A i \in 1..Len(payload) : PrintableByte(payload[i])
                             THEN payload ELSE SpacedHex(payload)) \o <<10>>

\* The payload "A", 0x7F was dumped as hex.
C14_Witness ==
  /\ st.pc = "rec_return" /\ ~Recognized(st.flags % 8, st.type_field)
  /\ SubSeq(data, st.pos + 1, st.pos + st.payload_len) = <<65, 127>>
  /\ IsPrefix(PrefixUnknownWellKnown \o ColonSpace \o <<52, 49, 32, 55, 70>>,
              st.log[Len(st.log)].text)

\* C15: once a Well-Known 'T' record with payload_len 0 is handed to
\* parse_ndef_text, the call ends with the out-of-bounds error and without
\* a Text block, whatever follows the record.
C15_EmptyTextFails ==
  (st.pc = "text_lang_len" /\ st.payload_len = 0) =>
    LET f == Run(data, st)
    IN  /\ f.exc = "OutOfBounds"
        /\ Len(f.log) = Len(st.log)
        /\ f.entry = "parse_ndef" => f.result = ErrorPrefix \o OutOfBoundsText

\* The call is at the start of a sub-decoder, which was handed a payload
\* that ends after the end of the buffer.
PayloadPastEnd ==
  /\ st.pc \in {"uri_prepend", "text_lang_len", "bt", "vcard", "wifi", "dump"}
  /\ st.pos + st.payload_len > Len(data)

\* The call ends with the out-of-bounds error and appends nothing more.
EndsOutOfBounds(d, s) ==
  LET f == Run(d, s)
  IN  /\ f.exc = "OutOfBounds"
      /\ f.log = s.log
      /\ f.entry = "parse_ndef" => f.result = ErrorPrefix \o OutOfBoundsText

\* The buffer 03 05 F1 01 01 55 00.
BufferF1 == <<3, 5, 241, 1, 1, 85, 0>>

UriPrefixes ==
  << <<>>,
     <<104, 116, 116, 112, 58, 47, 47, 119, 119, 119, 46>>,
     <<104, 116, 116, 112, 115, 58, 47, 47, 119, 119, 119, 46>>,
     <<104, 116, 116, 112, 58, 47, 47>>,
     <<104, 116, 116, 112, 115, 58, 47, 47>>,
     <<116, 101, 108, 58>>,
     <<109, 97, 105, 108, 116, 111, 58>> >>

\* The buffer 03 0B D1 01 07 55 01 6E 66 63 2E 72 65 FE and the text
\* "URI\nhttp://www.nfc.re".
BufferNfcRe == <<3, 11, 209, 1, 7, 85, 1, 110, 102, 99, 46, 114, 101, 254>>
TextNfcRe ==
  <<85, 82, 73, 10, 104, 116, 116, 112, 58, 47, 47, 119, 119, 119, 46, 110, 102,
    99, 46, 114, 101>>

\* C17: the block of a decoded Well-Known 'U' record with payload_len >= 1
\* is "URI", a newline, the prefix of the code in payload byte 0 (empty for
\* a code outside 0..6), the other payload_len - 1 bytes decoded as UTF-8,
\* and a newline; the buffer 03 0B D1 01 07 55 01 6E 66 63 2E 72 65 FE gives
\* "URI\nhttp://www.nfc.re" and the count 1.
C17_UriPrefix ==
  /\ (st.pc = "rec_return" /\ st.flags % 8 = 1 /\ st.type_field = <<85>>
       /\ st.payload_len >= 1) =>
       LET code == data[st.pos + 1]
           rest == SubSeq(data, st.pos + 2, st.pos + st.payload_len)
           prefix == IF code \in 0..6 THEN UriPrefixes[code + 1] ELSE <<>>
       IN  /\ st.pos + st.payload_len <= Len(data)
           /\ st.log[Len(st.log)].text =
                <<85, 82, 73, 10>> \o prefix \o Utf8Decode(rest) \o <<10>>
  /\ (data = BufferNfcRe /\ Returned) =>
       (st.result = TextNfcRe /\ st.ret = 1 /\ st.exc = "none")

\* The buffer of the example was parsed to its end.
C17_Witness ==
  /\ data = BufferNfcRe /\ Returned /\ st.result = TextNfcRe
  /\ st.prepend_type = 1 /\ st.payload_len = 7

\* A URI record with a code outside the table was decoded.
UriCodeOutsideTable ==
  /\ st.pc = "rec_return" /\ st.type_field = <<85>> /\ st.flags % 8 = 1
  /\ st.payload_len = 2 /\ data[st.pos + 1] = 35

\* The state of parse_ndef(d) run alone, after n steps.
AloneAfter(d, n) ==
  IF n = 0 THEN NdefInit ELSE RunFor(d, Tick(parse_ndef_call(d, NdefInit)), n - 1)

\* C18: in every interleaving of two calls of parse_ndef on distinct
\* buffers, each call is at every point in the state (cursor, count,
\* output, locals) it is in after as many steps alone, and returns the
\* result it returns alone; a step changes the state of one call only, and
\* no step changes a buffer.
C18_InterleavedParses ==
  /\ [](\A i \in {1, 2} :
          /\ st[i] = AloneAfter(data[i], st[i].steps)
          /\ st[i].pc = "done" =>
               /\ st[i].result = parse_ndef(data[i]).result
               /\ Outcome(st[i]) = Outcome(parse_ndef(data[i])))
  /\ [][\E i \in {1, 2} : \A j \in {1, 2} \ {i} : st'[j] = st[j]]_vars
  /\ [][data' = data]_vars

\* Both calls have returned, each with blocks in its own output.
C18_Witness ==
  /\ st[1].pc = "done" /\ st[2].pc = "done"
  /\ st[1].log # <<>> /\ st[2].log # <<>>
  /\ st[1].output # st[2].output
  /\ st[1].result # st[2].result
  /\ st[1].exc = "none" /\ st[2].exc = "OutOfBounds"

\* C19: when the scanner is back at its loop after an NdefMessage TLV whose
\* value starts at s and has the declared length L, the cursor is s + L,
\* and the records decoded for the message start and end inside [s, s+L).
C19_CursorAfterMessage ==
  (st.pc = "tlv_loop" /\ st.tlv_type = NdefTlvNdefMessage) =>
    LET s == st.tlv_start + (IF st.len_type < 255 THEN 2 ELSE 4)
        L == st.tlv_len
    IN  /\ st.pos = s + L
        /\ \A i \in 1..Len(st.log) :
             st.log[i].start >= s => st.log[i].start < s + L

\* C20: when parse_ndef_record has returned for the record that starts at
\* p, the position returned is p + 1 + 1 + (1 if SR else 4) + (1 if IL else
\* 0) + type_length + id_length + payload_length, with the lengths as they
\* stand in the buffer (payload_length one byte or four bytes big-endian,
\* id_length 0 without IL), and the record's first reads were flags,
\* type_length, payload_length, id_length (with IL) and type, in that order.
C20_RecordReturnsNextPos ==
  (st.pc = "msg_loop" /\ st.rec_start # -1) =>
    LET p == st.rec_start
        flags == data[p + 1]
        sr == (flags \div 16) % 2 = 1
        il == (flags \div 8) % 2 = 1
        type_length == data[p + 2]
        width == IF sr THEN 1 ELSE 4
        payload_length ==
          IF sr THEN data[p + 3] ELSE FromBytesBig(SubSeq(data, p + 3, p + 6))
        has_id == IF il THEN 1 ELSE 0
        id_length == IF il THEN data[p + 3 + width] ELSE 0
        g(k) == st.gets[st.rec_get0 + k]
    IN  /\ st.pos = p + 1 + 1 + width + has_id + type_length + id_length
                      + payload_length
        /\ g(1) = <<p, 1>>
        /\ g(2) = <<p + 1, 1>>
        /\ g(3) = <<p + 2, width>>
        /\ il => g(4) = <<p + 2 + width, 1>>
        /\ g(4 + has_id) = <<p + 2 + width + has_id, type_length>>
        /\ g(5 + has_id)[1] >= p + 2 + width + has_id + type_length + id_length

\* A record with a four-byte payload length and an id field has returned.
C20_Witness ==
  /\ st.pc = "msg_loop" /\ st.rec_start # -1
  /\ data[st.rec_start + 1] = 9
  /\ st.id_len = 2 /\ st.payload_len = 1
  /\ st.pos = st.rec_start + 11

\* The indices a call get(g[1], g[2]) on buffer d returned: none if it raised.
GetIndices(d, g) ==
  IF g[1] + g[2] > Len(d) THEN {} ELSE SliceIndices(d, g[1], g[1] + g[2])

\* No index of the buffer was returned by two calls of get.
NoByteReadTwice ==
  \A i, j \in 1..Len(st.gets) :
    i < j => GetIndices(data, st.gets[i]) \cap GetIndices(data, st.gets[j]) = {}

\* No step of a call lowers the cursor.
CursorNeverDecreases == [][st'.pos >= st.pos]_vars

\* C21: the cursor of the scanner, the message decoder and the record
\* decoder never decreases, and no byte of the buffer is read twice: not
\* after the cursor has passed it, and not ahead of the cursor and then
\* again for a later structure.
C21_NoBacktracking ==
  /\ [](NoByteReadTwice)
  /\ CursorNeverDecreases

\* The last read was the flags byte of the record that starts at rec_start.
FlagsJustRead ==
  /\ st.lg.called /\ ~st.lg.raised /\ st.lg.pos = st.rec_start
  /\ st.pc \in {"rec_type_len", "except", "done"}

\* The flags bytes that differ from f in bit 7 (MB) and bit 6 (ME) at most.
MbMeVariants(f) == {(f % 64) + 64 * k : k \in 0..3}

\* Buffer d with the byte at index i replaced by b.
WithByte(d, i, b) == [d EXCEPT ![i + 1] = b]

\* The starts of the records that appended a block, in order.
RecordStarts(s) == [i \in 1..Len(s.log) |-> s.log[i].start]

\* C22: when the record decoder has read a flags byte, the call on every
\* buffer that differs from this one only in the MB and ME bits of that
\* byte gives the same result, the same count or exception, the same
\* message count, the same record starts and the same final cursor.
C22_MbMeIgnored ==
  FlagsJustRead =>
    \A f \in MbMeVariants(st.flags) :
      LET d2 == WithByte(data, st.rec_start, f)
          a == Run(d2, Restart(d2, st))
          b == Run(data, st)
      IN  /\ Outcome(a) = Outcome(b)
          /\ a.message_count = b.message_count
          /\ RecordStarts(a) = RecordStarts(b)
          /\ a.pos = b.pos

\* The scanner has just skipped the value of a LockControl, MemoryControl
\* or Proprietary TLV.
SkippedTlv ==
  /\ st.pc = "tlv_loop"
  /\ st.tlv_type \in {NdefTlvLockControl, NdefTlvMemoryControl, NdefTlvProprietary}

\* The record decoder has just skipped an id field and is about to call a
\* sub-decoder.
SkippedId ==
  /\ st.pc \in {"uri_prepend", "text_lang_len", "bt", "vcard", "wifi", "dump"}
  /\ st.id_len > 0

\* The indices of buffer d in [lo, hi).
RangeIn(d, lo, hi) == lo..(Min(hi, Len(d)) - 1)

\* Buffer d with every byte at an index in R replaced by b.
Fill(d, R, b) == [k \in 1..Len(d) |-> IF (k - 1) \in R THEN b ELSE d[k]]

\* The bytes written into a skipped range.
FillBytes == {0, 3, 85, 170, 254}

\* No index in R is read in the whole call, and the call has the same
\* outcome on every buffer that differs from this one in one byte of R or
\* in all of them.
SkippedVerbatim(R) ==
  /\ Run(data, st).reads \cap R = {}
  /\ \A b \in FillBytes : \A Q \in {R} \cup {{i} : i \in R} :
       LET d2 == Fill(data, Q, b)
       IN  Outcome(Run(d2, Restart(d2, st))) = Outcome(Run(data, st))

\* C23: the value of a LockControl, MemoryControl or Proprietary TLV and
\* the id field of a record are skipped verbatim: the skip reads nothing,
\* appends nothing and leaves the message count, none of the skipped
\* bytes is ever read, and the call has the same outcome whatever they
\* hold.
C23_SkippedBytesIgnored ==
  /\ [](SkippedTlv => SkippedVerbatim(RangeIn(data, st.pos - st.tlv_len, st.pos)))
  /\ [](SkippedId => SkippedVerbatim(RangeIn(data, st.pos - st.id_len, st.pos)))
  /\ [][(st.pc = "tlv_value" /\ st.tlv_type # NdefTlvNdefMessage) =>
          /\ st'.output = st.output
          /\ st'.message_count = st.message_count
          /\ st'.gets = st.gets]_vars

\* A sub-decoder of the current record has made a read and the record has
\* not returned.
InSubDecoder ==
  st.pc \in {"uri_payload", "text_language", "text_payload", "rec_return"}

\* The calls of get made by the sub-decoder of the current record: those
\* after the record's flags, type length, payload length, id length (with
\* IL) and type.
SubDecoderGets ==
  {k \in 1..Len(st.gets) : k > st.rec_get0 + 4 + Il(st.flags)}

\* C24: every byte a type sub-decoder reads lies inside the payload of its
\* record, [payload_start, payload_start + payload_length).
C24_SubDecoderInsidePayload ==
  InSubDecoder =>
    \A k \in SubDecoderGets :
      GetIndices(data, st.gets[k]) \subseteq st.pos..(st.pos + st.payload_len - 1)

\* The length field of a LockControl, MemoryControl or Proprietary TLV was
\* the last thing read, and the value it declares ends past the end of the
\* buffer.
SkipRunsPastEnd ==
  /\ st.tlv_type \in {NdefTlvLockControl, NdefTlvMemoryControl, NdefTlvProprietary}
  /\ st.pc \notin {"tlv_len", "tlv_len_long"}
  /\ st.lg.called /\ ~st.lg.raised
  /\ st.lg.pos + st.lg.length = st.tlv_start + (IF st.len_type < 255 THEN 2 ELSE 4)
  /\ st.lg.pos + st.lg.length + st.tlv_len > st.end

\* The last TLV read is an NdefMessage TLV whose value has a non-zero
\* declared length and ends past the end of the buffer, and the message
\* decoder has been called for it.
MessagePastEnd ==
  /\ st.tlv_type = NdefTlvNdefMessage
  /\ st.pc \notin {"tlv_len", "tlv_len_long", "tlv_value"}
  /\ st.tlv_len > 0 /\ st.msg_end > st.end

\* A non-NDEF TLV that runs past the end does not abort: the loop exits,
\* and the count so far is returned with the output so far.
SkipPastEndReturns ==
  SkipRunsPastEnd =>
    /\ st.exc = "none"
    /\ st.pc \in {"tlv_value", "tlv_loop", "parse_ndef_ret", "done"}
    /\ st.output = ConcatBlocks(st.log)
    /\ st.pc # "tlv_value" => st.pos > st.end
    /\ st.pc \notin {"tlv_value", "tlv_loop"} =>
         (st.at_end /\ st.ret = st.message_count)
    /\ Returned =>
         st.result = IF st.message_count = 0 THEN NoMessagesText
                     ELSE Strip(st.output)

\* C25, as stated: a LockControl, MemoryControl or Proprietary TLV whose
\* declared length runs past the end of the buffer never aborts the call,
\* which returns the count and output so far; an NdefMessage TLV with a
\* non-zero declared length that runs past the end always aborts with the
\* out-of-bounds error.
C25_PastEndTlvOutOfBounds ==
  /\ SkipPastEndReturns
  /\ MessagePastEnd =>
       /\ st.pc \notin {"tlv_loop", "parse_ndef_ret"}
       /\ Done => st.exc = "OutOfBounds"
       /\ Returned => st.result = ErrorPrefix \o OutOfBoundsText

\* C25, amended: the same, but the NdefMessage TLV aborts with the
\* chunked-record error when a record with CF = 1 was read, and with the
\* out-of-bounds error otherwise.
C25_PastEndTlv ==
  /\ SkipPastEndReturns
  /\ MessagePastEnd =>
       /\ st.pc \notin {"tlv_loop", "parse_ndef_ret"}
       /\ Done => st.exc = IF Cf(st.flags) # 0 THEN "Chunked" ELSE "OutOfBounds"
       /\ Returned =>
            st.result = ErrorPrefix \o (IF Cf(st.flags) # 0 THEN ChunkedText
                                        ELSE OutOfBoundsText)

\* A MemoryControl TLV that runs past the end was skipped after a record
\* had been decoded, and parse_ndef returned the record's text.
C25_Witness ==
  /\ SkipRunsPastEnd /\ Returned
  /\ st.blocks >= 1 /\ st.message_count >= 1 /\ st.result = Strip(st.output)

\* The texts of the exceptions a step can raise.
ErrorTexts == {OutOfBoundsText, ChunkedText, IndexErrorText}

\* C26: parse_ndef always returns, and what it returns is the error text
\* alone when a step raised, the no-messages text when the scanner returned
\* the count 0, and the stripped output otherwise; an exception is caught
\* inside parse_ndef, and an error result holds no record text.
C26_ThreeResultForms ==
  /\ st.entry = "parse_ndef" => (Done \/ ENABLED Next)
  /\ (st.entry = "parse_ndef" /\ st.exc # "none") =>
       (st.pc \in {"except", "done"} /\ st.ret = -1)
  /\ Returned =>
       /\ st.exc # "none" =>
            (st.result = ErrorPrefix \o ExceptionText(st.exc)
             /\ st.result \in {ErrorPrefix \o e : e \in ErrorTexts})
       /\ (st.exc = "none" /\ st.ret = 0) => st.result = NoMessagesText
       /\ (st.exc = "none" /\ st.ret # 0) =>
            (st.ret > 0 /\ st.result = Strip(ConcatBlocks(st.log)))

\* parse_ndef returned an error after two blocks had been appended.
C26_Witness ==
  Returned /\ st.exc # "none" /\ st.blocks >= 2 /\ st.output # <<>>

\* Buffers without an NdefMessage TLV on which the scan ends without an
\* error: the empty buffer, a Terminator, padding, and a LockControl and a
\* Proprietary TLV.
EmptyScanBuffers == {<<>>, <<254>>, <<0, 0>>, <<1, 1, 170, 254>>, <<253, 0>>}

\* C27: when the scanner met a type byte it does not know, parse_ndef
\* returns the no-messages text, which is also its result on a buffer
\* without an NdefMessage TLV and its result whenever a scan ends without
\* an error and without a message; it does not return an error text.
C27_MalformedLikeEmpty ==
  /\ (Returned /\ st.tlv_type \notin KnownTlvTypes) =>
       /\ st.result = NoMessagesText
       /\ st.result \notin {ErrorPrefix \o e : e \in ErrorTexts}
       /\ \A e \in EmptyScanBuffers : st.result = parse_ndef(e).result
  /\ (Returned /\ st.exc = "none" /\ st.message_count = 0) =>
       st.result = NoMessagesText

\* An unknown type byte after two messages whose records were decoded.
C27_Witness ==
  /\ Returned /\ st.tlv_type \notin KnownTlvTypes
  /\ st.message_count >= 2 /\ st.blocks >= 2 /\ st.result = NoMessagesText

\* The scan ended at a Terminator or at the end of the buffer.
ScanEnded == Done /\ st.exc = "none" /\ (st.term_pos # -1 \/ st.at_end)

\* The buffer 03 00 FE: an NdefMessage TLV of length 0 and a Terminator.
BufferEmptyMessage == <<3, 0, 254>>

\* C28: a scan that ends at a Terminator or at the end of the buffer
\* returns already_parsed plus the number of NdefMessage TLV headers the
\* scanner read; the count already stands when the message decoder is
\* called and while its records are decoded; an NdefMessage TLV of length
\* 0 is counted and appends nothing; on 03 00 FE the count is
\* already_parsed + 1 and parse_ndef returns the empty string.
C28_CountIsHeaders ==
  /\ ScanEnded => st.ret = st.already_parsed + st.ndef_headers
  /\ st.pc \in {"msg_loop", "rec_flags", "rec_return"} =>
       st.message_count = st.already_parsed + st.ndef_headers
  /\ (st.pc = "tlv_loop" /\ st.tlv_type = NdefTlvNdefMessage /\ st.tlv_len = 0) =>
       /\ st.message_count = st.already_parsed + st.ndef_headers
       /\ st.message_count >= 1
       /\ \A i \in 1..Len(st.log) : st.log[i].start < st.tlv_start
  /\ (data = BufferEmptyMessage /\ Done) =>
       /\ st.ret = st.already_parsed + 1 /\ st.output = <<>>
       /\ Returned => (st.result = <<>> /\ st.result # NoMessagesText)

\* A scan that read an empty message and a message of two records ended
\* at a Terminator with the count 2.
C28_Witness ==
  /\ ScanEnded /\ st.term_pos # -1 /\ st.ret = 2 /\ st.already_parsed = 0
  /\ st.blocks = 2 /\ st.ndef_headers = 2
  /\ data[2] = 0 /\ \A i \in 1..Len(st.log) : st.log[i].start >= 4

\* C29: once the record decoder has read a flags byte with CF = 1, the
\* call has failed with the chunked-record error and not the out-of-bounds
\* error, and the flags read was the only read made for the record: no
\* length field was read, whether or not the buffer holds one.
C29_ChunkCheckBeforeLengths ==
  (Cf(st.flags) # 0) =>
    /\ st.exc = "Chunked" /\ st.exc # "OutOfBounds"
    /\ st.pc \in {"except", "done"}
    /\ Len(st.gets) = st.rec_get0 + 1
    /\ st.gets[Len(st.gets)] = <<st.rec_start, 1>>
    /\ ~st.lg.raised /\ st.pos = st.rec_start + 1
    /\ Returned => st.result = ErrorPrefix \o ChunkedText

\* A record with CF = 1 whose flags byte is the last byte of the buffer,
\* in a TLV that declares more bytes than the buffer holds.
C29_Witness ==
  /\ Returned /\ Cf(st.flags) # 0
  /\ st.rec_start = Len(data) - 1 /\ st.msg_end > Len(data)

\* The lengths of the current record have been read: its flags (CF = 0),
\* type length, payload length and, with IL, id length.
HeaderRead ==
  /\ st.rec_start # -1 /\ Cf(st.flags) = 0 /\ st.pc # "rec_id_len"
  /\ LET n == st.rec_get0 + 3 + Il(st.flags)
     IN  Len(st.gets) > n \/ (Len(st.gets) = n /\ ~st.lg.raised)

\* Where the type field of the current record starts.
TypeStart == st.rec_start + 2 + (IF Sr(st.flags) # 0 THEN 1 ELSE 4) + Il(st.flags)

\* The type field or the id field of the current record extends past the
\* end of the buffer.
TypeOrIdPastEnd ==
  HeaderRead /\ TypeStart + st.type_len + st.id_len > Len(data)

\* C30: a record whose type field or id field extends past the end of the
\* buffer aborts the call with the out-of-bounds error, at the read of the
\* type or at the first read of the sub-decoder, in every branch of the
\* dispatch and for every payload length: the record appends no block and
\* does not return.
C30_TypeOrIdPastEndFails ==
  TypeOrIdPastEnd =>
    /\ st.pc \in {"rec_type", "uri_prepend", "text_lang_len", "bt", "vcard",
                  "wifi", "dump", "except", "done"}
    /\ st.exc \in {"none", "OutOfBounds"}
    /\ st.pc \in {"except", "done"} => (st.exc = "OutOfBounds" /\ st.lg.raised)
    /\ \A i \in 1..Len(st.log) : st.log[i].start # st.rec_start
    /\ Returned => st.result = ErrorPrefix \o OutOfBoundsText

\* A Bluetooth record with payload length 0 whose type was read and whose
\* id field lies past the end of the buffer has aborted.
C30_Witness ==
  /\ TypeOrIdPastEnd /\ Returned
  /\ st.type_field = TypeBt /\ st.payload_len = 0 /\ st.id_len = 1
  /\ TypeStart + st.type_len = Len(data)

====
